---- MODULE Spec2Model ----
(***************************************************************************)
(* A model of extract_assets.py: the path-safety check, the conflict-safe  *)
(* move, and the extraction pipeline (unpack, convert, classify, relocate, *)
(* record, write the manifest).                                            *)
(*                                                                         *)
(* Python strings are sequences of one-character strings, so that          *)
(* str.startswith, os.path.splitext, os.path.normpath and the f-string of  *)
(* safe_move are computed character by character, as the interpreter does. *)
(***************************************************************************)
EXTENDS Integers, Sequences, FiniteSets, TLC

VARIABLES
    pc,               \* position of the running call
    basedir,          \* is_safe_path: first argument
    path,             \* is_safe_path: second argument
    safe,             \* is_safe_path: returned value
    fs,               \* the file system: absolute normalised path -> node
    target,           \* safe_move driver: the file name every call targets
    returned,         \* safe_move driver: the paths returned so far
    file_list,        \* extract_assets: zip_ref.namelist()
    convert_images,   \* extract_assets: flag
    organize_files,   \* extract_assets: flag
    extracted_files,  \* extract_assets: list built by the unpacking loop
    i,                \* index of the loop in progress
    asset_index,      \* extract_assets: the records appended so far
    conversion_stats, \* extract_assets: converted / skipped / failed
    manifest          \* <<the document dumped to manifest.json>>, or <<>>

vars == <<pc, basedir, path, safe, fs, target, returned, file_list,
          convert_images, organize_files, extracted_files, i, asset_index,
          conversion_stats, manifest>>

-----------------------------------------------------------------------------
(* Python str and os.path                                                  *)

\* A string literal as the sequence of its characters.
Chars(s) == LET f == [k \in 1..Len(s) |-> SubSeq(s, k, k)] IN SubSeq(f, 1, Len(s))

Last(s) == s[Len(s)]

\* str.startswith
startswith(s, prefix) ==
    /\ Len(prefix) <= Len(s)
    /\ SubSeq(s, 1, Len(prefix)) = prefix

\* str.endswith
endswith(s, suffix) ==
    /\ Len(suffix) <= Len(s)
    /\ SubSeq(s, Len(s) - Len(suffix) + 1, Len(s)) = suffix

\* `sub in s`
contains(s, sub) ==
    \E k \in 1..(Len(s) - Len(sub) + 1) : SubSeq(s, k, k + Len(sub) - 1) = sub

\* str.rfind(ch) for a single character, 1-based; 0 when absent
rfind(s, ch) ==
    IF \A k \in 1..Len(s) : s[k] # ch THEN 0
    ELSE CHOOSE k \in 1..Len(s) : s[k] = ch /\ \A j \in (k + 1)..Len(s) : s[j] # ch

\* str.find(ch) for a single character, 1-based; 0 when absent
find(s, ch) ==
    IF \A k \in 1..Len(s) : s[k] # ch THEN 0
    ELSE CHOOSE k \in 1..Len(s) : s[k] = ch /\ \A j \in 1..(k - 1) : s[j] # ch

\* str.lower on one ASCII character
lowerChar(c) ==
    LET upper == Chars("ABCDEFGHIJKLMNOPQRSTUVWXYZ")
        lowercase == Chars("abcdefghijklmnopqrstuvwxyz")
    IN  IF \E k \in 1..26 : upper[k] = c
        THEN lowercase[CHOOSE k \in 1..26 : upper[k] = c] ELSE c

\* str.lower
lower(s) ==
    LET f == [k \in 1..Len(s) |-> lowerChar(s[k])] IN SubSeq(f, 1, Len(s))

\* str.split(sep) for a single-character separator
RECURSIVE split(_, _)
split(s, sep) ==
    LET k == find(s, sep)
    IN  IF k = 0 THEN <<s>>
        ELSE <<SubSeq(s, 1, k - 1)>> \o split(SubSeq(s, k + 1, Len(s)), sep)

\* sep.join(parts)
RECURSIVE join(_, _)
join(parts, sep) ==
    IF parts = <<>> THEN <<>>
    ELSE IF Len(parts) = 1 THEN parts[1]
    ELSE parts[1] \o <<sep>> \o join(Tail(parts), sep)

\* str(n) for n >= 0
RECURSIVE str(_)
str(n) ==
    LET digit == Chars("0123456789")[(n % 10) + 1]
    IN  IF n < 10 THEN <<digit>> ELSE str(n \div 10) \o <<digit>>

\* s.rstrip('/')
RECURSIVE rstripSlash(_)
rstripSlash(s) ==
    IF s # <<>> /\ Last(s) = "/" THEN rstripSlash(SubSeq(s, 1, Len(s) - 1)) ELSE s

isabs(p) == startswith(p, <<"/">>)

\* os.path.join(a, b)
os_path_join(a, b) ==
    IF isabs(b) THEN b
    ELSE IF a = <<>> \/ endswith(a, <<"/">>) THEN a \o b
    ELSE a \o <<"/">> \o b

\* the loop of posixpath.normpath over the components
RECURSIVE normcomps(_, _, _)
normcomps(comps, new_comps, initial_slashes) ==
    IF comps = <<>> THEN new_comps
    ELSE LET comp == Head(comps)
             rest == Tail(comps)
         IN  IF comp = <<>> \/ comp = <<".">> THEN
                 normcomps(rest, new_comps, initial_slashes)
             ELSE IF \/ comp # <<".", ".">>
                     \/ (initial_slashes = 0 /\ new_comps = <<>>)
                     \/ (new_comps # <<>> /\ Last(new_comps) = <<".", ".">>) THEN
                 normcomps(rest, Append(new_comps, comp), initial_slashes)
             ELSE IF new_comps # <<>> THEN
                 normcomps(rest, SubSeq(new_comps, 1, Len(new_comps) - 1), initial_slashes)
             ELSE normcomps(rest, new_comps, initial_slashes)

\* os.path.normpath
normpath(p) ==
    IF p = <<>> THEN <<".">>
    ELSE LET initial_slashes ==
                 IF ~startswith(p, <<"/">>) THEN 0
                 ELSE IF startswith(p, <<"/", "/">>) /\ ~startswith(p, <<"/", "/", "/">>)
                      THEN 2 ELSE 1
             body == join(normcomps(split(p, "/"), <<>>, initial_slashes), "/")
             out == [k \in 1..initial_slashes |-> "/"] \o body
         IN  IF out = <<>> THEN <<".">> ELSE out

\* os.getcwd()
Cwd == Chars("/t")

\* os.path.abspath
abspath(p) == normpath(IF isabs(p) THEN p ELSE os_path_join(Cwd, p))

\* os.path.basename
basename(p) == SubSeq(p, rfind(p, "/") + 1, Len(p))

\* os.path.dirname
dirname(p) ==
    LET head == SubSeq(p, 1, rfind(p, "/"))
    IN  IF head # <<>> /\ \E k \in 1..Len(head) : head[k] # "/"
        THEN rstripSlash(head) ELSE head

\* os.path.splitext: <<root, ext>>
splitext(p) ==
    LET sepIndex == rfind(p, "/")
        dotIndex == rfind(p, ".")
    IN  IF /\ dotIndex > sepIndex
           /\ \E k \in (sepIndex + 1)..(dotIndex - 1) : p[k] # "."
        THEN <<SubSeq(p, 1, dotIndex - 1), SubSeq(p, dotIndex, Len(p))>>
        ELSE <<p, <<>> >>

\* the non-empty components of an absolute path
Components(p) == SelectSeq(split(p, "/"), LAMBDA c : c # <<>>)

\* length of the common prefix of two component lists
RECURSIVE commonprefix(_, _)
commonprefix(a, b) ==
    IF a = <<>> \/ b = <<>> \/ Head(a) # Head(b) THEN 0
    ELSE 1 + commonprefix(Tail(a), Tail(b))

\* os.path.relpath(p, start)
relpath(p, start) ==
    LET start_list == Components(abspath(start))
        path_list == Components(abspath(p))
        n == commonprefix(start_list, path_list)
        rel_list == [k \in 1..(Len(start_list) - n) |-> <<".", ".">>]
                        \o SubSeq(path_list, n + 1, Len(path_list))
    IN  IF rel_list = <<>> THEN <<".">> ELSE join(rel_list, "/")

-----------------------------------------------------------------------------
(* is_safe_path                                                            *)

is_safe_path(base, p) == startswith(abspath(p), abspath(base))

-----------------------------------------------------------------------------
(* The file system                                                         *)

\* fs maps the absolute normalised path of every existing node to the node.
DirNode == [kind |-> "dir", size |-> 0, img |-> FALSE, w |-> 0, h |-> 0, data |-> <<>>]

FileNode(size, img, w, h, data) ==
    [kind |-> "file", size |-> size, img |-> img, w |-> w, h |-> h, data |-> data]

\* os.path.exists
exists(f, p) == abspath(p) \in DOMAIN f

\* os.path.isfile
isfile(f, p) ==
    /\ exists(f, p)
    /\ f[abspath(p)].kind = "file"
    /\ ~endswith(p, <<"/">>)

\* os.path.getsize
getsize(f, p) == f[abspath(p)].size

\* the file system with node n at p (created or replaced)
WriteNode(f, p, n) ==
    [q \in DOMAIN f \cup {abspath(p)} |-> IF q = abspath(p) THEN n ELSE f[q]]

\* os.remove
remove(f, p) == [q \in DOMAIN f \ {abspath(p)} |-> f[q]]

\* p and every directory above it
RECURSIVE UpTo(_)
UpTo(p) == IF dirname(p) = p THEN {p} ELSE {p} \cup UpTo(dirname(p))

\* os.makedirs(p, exist_ok=True)
makedirs(f, p) ==
    [q \in DOMAIN f \cup UpTo(abspath(p)) |-> IF q \in DOMAIN f THEN f[q] ELSE DirNode]

\* shutil.move of a regular file to a path that does not exist
shutil_move(f, src, dst) == WriteNode(remove(f, src), dst, f[abspath(src)])

-----------------------------------------------------------------------------
(* safe_move                                                               *)

\* safe_move, lines 23-30, without the exists() test: the first candidate,
\* taken whether or not it is free.
free_name_unchecked(f, dst, base, ext, counter) ==
    os_path_join(dirname(dst), base \o <<"_">> \o str(counter) \o ext)

\* safe_move, lines 23-30: the while loop from `counter`, giving new_path
RECURSIVE free_name(_, _, _, _, _)
free_name(f, dst, base, ext, counter) ==
    LET new_name == base \o <<"_">> \o str(counter) \o ext
        new_path == os_path_join(dirname(dst), new_name)
    IN  IF ~exists(f, new_path) THEN new_path
        ELSE free_name(f, dst, base, ext, counter + 1)

\* safe_move without line 18: always moves onto dst.
safe_move_clobber(f, src, dst) == [fs |-> shutil_move(f, src, dst), ret |-> dst]

\* safe_move(src, dst): the file system after the call and the returned path
safe_move(f, src, dst) ==
    IF ~exists(f, dst) THEN [fs |-> shutil_move(f, src, dst), ret |-> dst]
    ELSE LET se == splitext(basename(src))
             new_path == free_name(f, dst, se[1], se[2], 1)
         IN  [fs |-> shutil_move(f, src, new_path), ret |-> new_path]

-----------------------------------------------------------------------------
(* Values of the variables a specification does not use                    *)

IdlePath == basedir = <<>> /\ path = <<>> /\ safe = FALSE
IdleMove == target = <<>> /\ returned = <<>>
IdleRun ==
    /\ file_list = <<>>
    /\ convert_images = FALSE
    /\ organize_files = FALSE
    /\ extracted_files = <<>>
    /\ asset_index = <<>>
    /\ conversion_stats = [converted |-> 0, skipped |-> 0, failed |-> 0]
    /\ manifest = <<>>

pathVars == <<basedir, path, safe>>
moveVars == <<target, returned>>
runVars == <<file_list, convert_images, organize_files, extracted_files,
             asset_index, conversion_stats, manifest>>

-----------------------------------------------------------------------------
(* SpecPath: calls of is_safe_path as extract_assets makes them            *)

MaxSegs == 2

\* the components archive names are built from
Segs == {Chars(".."), Chars("."), Chars("sub"), Chars("file"), Chars("evil"),
         Chars("out_evil")}

\* archive names: 1..MaxSegs components, and two absolute names
RelNames ==
    {join(q, "/") : q \in UNION {[1..n -> Segs] : n \in 1..MaxSegs}}
        \cup {Chars("/etc/x"), Chars("/t/out/x")}

\* output directories
Roots == {Chars("/t/out"), Chars("/t/out/"), Chars("out")}

InitPath ==
    /\ pc = "call"
    /\ basedir \in Roots
    /\ \E file \in RelNames : path = os_path_join(basedir, file)
    /\ safe = FALSE
    /\ fs = <<>> /\ i = 0
    /\ IdleMove /\ IdleRun

\* lines 33-36
CheckPath ==
    /\ pc = "call"
    /\ safe' = is_safe_path(basedir, path)
    /\ pc' = "return"
    /\ UNCHANGED <<basedir, path, fs, i, moveVars, runVars>>

NextPath == CheckPath

SpecPath == InitPath /\ [][NextPath]_vars

-----------------------------------------------------------------------------
(* SpecMove: a sequence of safe_move calls for one directory and file name *)

MaxCalls == 3

\* the destination directory of every call
MoveDir == Chars("/t/out/other")

\* the directory the k-th source file waits in
Stage(k) == Chars("/t/in") \o str(k)

\* the file names a run targets
MoveNames == {Chars("icon.png"), Chars("README"), Chars(".hidden"), Chars("a.tar.gz")}

\* names that may already be in the destination directory
Occupants(name) ==
    LET se == splitext(name)
    IN  {name, se[1] \o Chars("_1") \o se[2], se[1] \o Chars("_2") \o se[2],
         se[1] \o Chars("_1_1") \o se[2]}

\* the file a call moves: its bytes are tagged with the number of the call
Staged(k) == FileNode(1, FALSE, 0, 0, str(k))

\* a file that was in the destination directory before the first call
Old == FileNode(1, FALSE, 0, 0, Chars("old"))

RECURSIVE StageAll(_, _, _)
StageAll(f, name, k) ==
    IF k = 0 THEN f
    ELSE StageAll(WriteNode(makedirs(f, Stage(k)), os_path_join(Stage(k), name), Staged(k)),
                  name, k - 1)

RECURSIVE WriteAll(_, _, _, _)
WriteAll(f, dir, names, n) ==
    IF names = {} THEN f
    ELSE LET x == CHOOSE x \in names : TRUE
         IN  WriteAll(WriteNode(f, os_path_join(dir, x), n), dir, names \ {x}, n)

InitMove ==
    /\ pc = "move"
    /\ target \in MoveNames
    /\ \E present \in SUBSET Occupants(target) :
           fs = WriteAll(StageAll(makedirs(<<>>, MoveDir), target, MaxCalls),
                         MoveDir, present, Old)
    /\ returned = <<>>
    /\ i = 0
    /\ IdlePath /\ IdleRun

\* a call of safe_move that returns (lines 16-30)
MoveCall ==
    /\ pc = "move"
    /\ i < MaxCalls
    /\ LET r == safe_move(fs, os_path_join(Stage(i + 1), target),
                          os_path_join(MoveDir, target))
       IN  /\ fs' = r.fs
           /\ returned' = Append(returned, r.ret)
    /\ i' = i + 1
    /\ UNCHANGED <<pc, target, pathVars, runVars>>

\* a call of safe_move in which shutil.move raises (lines 19, 28)
MoveCallRaises ==
    /\ pc = "move"
    /\ i < MaxCalls
    /\ i' = i + 1
    /\ UNCHANGED <<pc, fs, target, returned, pathVars, runVars>>

NextMove == MoveCall \/ MoveCallRaises

SpecMove == InitMove /\ [][NextMove]_vars

-----------------------------------------------------------------------------
(* extract_assets                                                          *)

MaxEntries == 2

\* line 80
MAX_IMAGE_SIZE == 10 * 1024 * 1024

\* the output_dir argument, and lines 49-52
output_dir == Chars("/t/out")
sprite_dir == os_path_join(output_dir, Chars("sprites"))
tile_dir == os_path_join(output_dir, Chars("tiles"))
sound_dir == os_path_join(output_dir, Chars("sounds"))
other_dir == os_path_join(output_dir, Chars("other"))

\* An archive member: its name, the size of its bytes, whether PIL can open
\* them as an image and, if so, the image's width and height.
Member(name, size, img, w, h) ==
    [name |-> Chars(name), size |-> size, img |-> img, w |-> w, h |-> h]

\* The members archives are made of.
Pool ==
    { Member("d/", 0, FALSE, 0, 0),
      Member("a/icon.png", 100, TRUE, 32, 32),
      Member("b/icon.png", 100, TRUE, 64, 64),
      Member("a/icon.bmp", 100, TRUE, 96, 96),
      Member("../out_evil/x.txt", 100, FALSE, 0, 0),
      Member("sprites/boom.wav", 100, FALSE, 0, 0),
      Member("Background.jpeg", 100, TRUE, 96, 96),
      Member("../evil.txt", 100, FALSE, 0, 0),
      Member("big.gif", MAX_IMAGE_SIZE + 1, TRUE, 256, 256),
      Member("bad.pcx", 100, FALSE, 0, 0),
      Member("other/n.txt", 100, FALSE, 0, 0),
      Member("sprites/tile_bg.jpg", 100, TRUE, 32, 32),
      Member("Hero_SPRITE.GIF", MAX_IMAGE_SIZE, TRUE, 256, 32),
      Member("tiles/tall.png", 100, TRUE, 64, 128) }

\* ZipFile.getinfo
getinfo(name) == CHOOSE m \in Pool : m.name = name

\* ZipFile._extract_member: the member is written at `where`
extract_member(f, m, where) ==
    IF endswith(m.name, <<"/">>) THEN makedirs(f, where)
    ELSE WriteNode(makedirs(f, dirname(where)), where,
                   FileNode(m.size, m.img, m.w, m.h, m.name))

\* ZipFile._extract_member: where a member is written, its name without
\* its empty, "." and ".." components, under the directory
targetpath(file, dir) ==
    normpath(os_path_join(dir,
        join(SelectSeq(split(file, "/"),
                       LAMBDA c : c \notin {<<>>, <<".">>, <<".", ".">>}), "/")))

\* ZipFile.extract(file, output_dir) (line 72)
zip_extract(f, file, dir) == extract_member(f, getinfo(file), targetpath(file, dir))

\* lines 93 and 100: the extensions tested
SizeCheckedExts == {Chars(".pcx"), Chars(".bmp"), Chars(".img"), Chars(".gif"), Chars(".png")}
ConvertedExts == {Chars(".pcx"), Chars(".bmp"), Chars(".img"), Chars(".gif")}

\* lines 93-94 with the size taken in KB against a limit in bytes
too_large_kb(f, file_path, file_ext) ==
    /\ file_ext \in SizeCheckedExts
    /\ convert_images
    /\ getsize(f, file_path) \div 1024 > MAX_IMAGE_SIZE

\* lines 93-94: the entry is skipped as a large image
too_large(f, file_path, file_ext) ==
    /\ file_ext \in SizeCheckedExts
    /\ convert_images
    /\ getsize(f, file_path) > MAX_IMAGE_SIZE

\* lines 104-119: the file is opened, saved as new_path and removed
converted(f, file_path, new_path, src, png_size) ==
    [fs |-> remove(WriteNode(f, new_path,
                             FileNode(png_size, TRUE, src.w, src.h,
                                      src.data \o Chars(" as png"))),
                   file_path),
     file_path |-> new_path,
     filename |-> basename(new_path),
     file_ext |-> Chars(".png"),
     converted |-> 1, skipped |-> 0, failed |-> 0]

\* lines 100-126 for the file src, which would be saved as new_path
convert_to(f, file_path, filename, file_ext, new_path, src, png_size) ==
    IF ~(file_ext \in ConvertedExts /\ convert_images) THEN
        [fs |-> f, file_path |-> file_path, filename |-> filename,
         file_ext |-> file_ext, converted |-> 0, skipped |-> 0, failed |-> 0]
    ELSE IF file_ext = Chars(".png") THEN
        [fs |-> f, file_path |-> file_path, filename |-> filename,
         file_ext |-> file_ext, converted |-> 0, skipped |-> 1, failed |-> 0]
    ELSE IF ~src.img \/ (exists(f, new_path) /\ ~isfile(f, new_path)) THEN
        [fs |-> f, file_path |-> file_path, filename |-> filename,
         file_ext |-> file_ext, converted |-> 0, skipped |-> 0, failed |-> 1]
    ELSE converted(f, file_path, new_path, src, png_size)

\* lines 100-126: the conversion of one file; png_size is the size of the
\* file Image.save writes.
convert(f, file_path, filename, file_ext, png_size) ==
    convert_to(f, file_path, filename, file_ext,
               splitext(file_path)[1] \o Chars(".png"), f[abspath(file_path)], png_size)

\* lines 130 and 146: the extensions tested
RasterExts == {Chars(".png"), Chars(".jpg"), Chars(".jpeg"), Chars(".gif")}
SoundExts == {Chars(".voc"), Chars(".wav"), Chars(".aud"), Chars(".mp3"), Chars(".ogg")}

\* lines 137-145 with `<` for `<=` in the sprite test
by_dimensions_strict(f, file_path) ==
    LET n == f[abspath(file_path)]
    IN  IF ~n.img THEN other_dir
        ELSE IF n.w < 64 /\ n.h < 64 THEN sprite_dir
        ELSE IF n.w >= 128 \/ n.h >= 128 THEN tile_dir
        ELSE other_dir

\* lines 137-145: the directory chosen from the image's dimensions
by_dimensions(f, file_path) ==
    LET n == f[abspath(file_path)]
    IN  IF ~n.img THEN other_dir
        ELSE IF n.w <= 64 /\ n.h <= 64 THEN sprite_dir
        ELSE IF n.w >= 128 \/ n.h >= 128 THEN tile_dir
        ELSE other_dir

\* lines 88 and 130-147: dest_dir
classify(f, file_path, filename, file_ext) ==
    IF file_ext \in RasterExts THEN
        IF contains(lower(filename), Chars("sprite")) THEN sprite_dir
        ELSE IF \/ contains(lower(filename), Chars("tile"))
                \/ contains(lower(filename), Chars("background")) THEN tile_dir
        ELSE by_dimensions(f, file_path)
    ELSE IF file_ext \in SoundExts THEN sound_dir
    ELSE other_dir

\* lines 155-161
asset_type(file_path) ==
    IF startswith(file_path, sprite_dir) THEN Chars("sprite")
    ELSE IF startswith(file_path, tile_dir) THEN Chars("tile")
    ELSE IF startswith(file_path, sound_dir) THEN Chars("sound")
    ELSE Chars("other")

\* lines 163-169
record(file_path, filename, original_path, file_ext) ==
    [type |-> asset_type(file_path),
     path |-> relpath(file_path, output_dir),
     filename |-> filename,
     original_path |-> relpath(original_path, output_dir),
     format |-> IF file_ext # <<>> THEN Tail(file_ext) ELSE <<>>]

\* lines 149-151: dest_path, and whether the file is moved
at_move(c, original_path, dest_path) ==
    [c |-> c,
     original_path |-> original_path,
     dest_path |-> dest_path,
     moves |-> organize_files /\ c.file_path # dest_path]

\* lines 128-151 for a file in the state c that conversion left
organize(c, original_path) ==
    at_move(c, original_path,
            os_path_join(IF organize_files
                         THEN classify(c.fs, c.file_path, c.filename, c.file_ext)
                         ELSE other_dir,
                         c.filename))

\* lines 87-126 for a file with this name and extension
process(f, original_path, filename, file_ext, png_size) ==
    organize(convert(f, original_path, filename, file_ext, png_size), original_path)

\* lines 87-151 for extracted_files[i]: the state of the loop body when it
\* reaches the move
Prepared(png_size) ==
    process(fs, extracted_files[i], basename(extracted_files[i]),
            lower(splitext(basename(extracted_files[i]))[2]), png_size)

\* conversion_stats after the loop body that left c
counted(c) ==
    [converted |-> conversion_stats.converted + c.converted,
     skipped |-> conversion_stats.skipped + c.skipped,
     failed |-> conversion_stats.failed + c.failed]

\* lines 154-169 for a file that ended at m.ret
Recorded(p, m) ==
    /\ fs' = m.fs
    /\ asset_index' = Append(asset_index,
           record(m.ret, p.c.filename, p.original_path, p.c.file_ext))
    /\ conversion_stats' = counted(p.c)

\* lines 149-169 when safe_move returns
Relocated(p) ==
    Recorded(p, IF p.moves THEN safe_move(p.c.fs, p.c.file_path, p.dest_path)
                ELSE [fs |-> p.c.fs, ret |-> p.c.file_path])

\* lines 149-152 when shutil.move raises inside safe_move
Raised(p) ==
    /\ p.moves
    /\ fs' = p.c.fs
    /\ conversion_stats' = counted(p.c)

\* lines 173-177: the directories below output_dir that hold no file go
cleanup(f) ==
    LET below(q, d) == startswith(q, d \o <<"/">>)
        empty(d) == /\ f[d].kind = "dir"
                    /\ below(d, abspath(output_dir))
                    /\ \A q \in DOMAIN f : below(q, d) => f[q].kind = "dir"
    IN  [q \in {d \in DOMAIN f : ~empty(d)} |-> f[q]]

\* archive listings: up to MaxEntries members with distinct names
Listings ==
    {l \in UNION {[1..n -> {m.name : m \in Pool}] : n \in 0..MaxEntries} :
        \A a, b \in 1..Len(l) : a # b => l[a] # l[b]}

InitRun ==
    /\ pc = "start"
    /\ file_list \in Listings
    /\ convert_images \in BOOLEAN
    /\ organize_files \in BOOLEAN
    /\ fs = makedirs(<<>>, Cwd)
    /\ extracted_files = <<>>
    /\ i = 0
    /\ asset_index = <<>>
    /\ conversion_stats = [converted |-> 0, skipped |-> 0, failed |-> 0]
    /\ manifest = <<>>
    /\ IdlePath /\ IdleMove

\* the position after a loop over `list` has handled element i
After(list, here, next) == IF i < Len(list) THEN here ELSE next

\* lines 44-64: the archive is missing, the output directory cannot be made,
\* or the archive cannot be opened
StartRaises ==
    /\ pc = "start"
    /\ \E cause \in {"missing", "mkdir", "badzip"} :
           fs' = IF cause = "badzip"
                 THEN (IF organize_files
                       THEN makedirs(makedirs(makedirs(makedirs(fs, sprite_dir), tile_dir),
                                              sound_dir), other_dir)
                       ELSE makedirs(fs, output_dir))
                 ELSE fs
    /\ pc' = "aborted"
    /\ UNCHANGED <<i, pathVars, moveVars, runVars>>

\* lines 44-64
Start ==
    /\ pc = "start"
    /\ fs' = IF organize_files
             THEN makedirs(makedirs(makedirs(makedirs(fs, sprite_dir), tile_dir),
                                    sound_dir), other_dir)
             ELSE makedirs(fs, output_dir)
    /\ pc' = IF file_list = <<>> THEN "process" ELSE "extract"
    /\ i' = 1
    /\ UNCHANGED <<pathVars, moveVars, runVars>>

\* lines 65-70: an entry that fails is_safe_path
BlockEntry ==
    /\ pc = "extract"
    /\ ~is_safe_path(output_dir, os_path_join(output_dir, file_list[i]))
    /\ pc' = After(file_list, "extract", "process")
    /\ i' = After(file_list, i + 1, 1)
    /\ UNCHANGED <<fs, pathVars, moveVars, runVars>>

\* lines 65-73: an entry that passes is_safe_path
ExtractEntry ==
    /\ pc = "extract"
    /\ LET dest_path == os_path_join(output_dir, file_list[i])
       IN  /\ is_safe_path(output_dir, dest_path)
           /\ fs' = zip_extract(fs, file_list[i], output_dir)
           /\ extracted_files' = Append(extracted_files, dest_path)
    /\ pc' = After(file_list, "extract", "process")
    /\ i' = After(file_list, i + 1, 1)
    /\ UNCHANGED <<file_list, convert_images, organize_files, asset_index,
                   conversion_stats, manifest, pathVars, moveVars>>

\* lines 83-85
SkipNonFile ==
    /\ pc = "process"
    /\ i <= Len(extracted_files)
    /\ ~isfile(fs, extracted_files[i])
    /\ i' = i + 1
    /\ UNCHANGED <<pc, fs, pathVars, moveVars, runVars>>

\* lines 83-97
SkipLarge ==
    /\ pc = "process"
    /\ i <= Len(extracted_files)
    /\ isfile(fs, extracted_files[i])
    /\ too_large(fs, extracted_files[i], lower(splitext(basename(extracted_files[i]))[2]))
    /\ conversion_stats' = [conversion_stats EXCEPT !.skipped = @ + 1]
    /\ i' = i + 1
    /\ UNCHANGED <<pc, fs, file_list, convert_images, organize_files, extracted_files,
                   asset_index, manifest, pathVars, moveVars>>

\* lines 83-169: an entry that is processed to its record
ProcessFile ==
    /\ pc = "process"
    /\ i <= Len(extracted_files)
    /\ isfile(fs, extracted_files[i])
    /\ ~too_large(fs, extracted_files[i], lower(splitext(basename(extracted_files[i]))[2]))
    /\ \E png_size \in {100, MAX_IMAGE_SIZE + 1} : Relocated(Prepared(png_size))
    /\ i' = i + 1
    /\ UNCHANGED <<pc, file_list, convert_images, organize_files, extracted_files,
                   manifest, pathVars, moveVars>>

\* lines 83-152 and 197-200: shutil.move raises inside safe_move
ProcessRaises ==
    /\ pc = "process"
    /\ i <= Len(extracted_files)
    /\ isfile(fs, extracted_files[i])
    /\ ~too_large(fs, extracted_files[i], lower(splitext(basename(extracted_files[i]))[2]))
    /\ \E png_size \in {100, MAX_IMAGE_SIZE + 1} : Raised(Prepared(png_size))
    /\ pc' = "aborted"
    /\ UNCHANGED <<i, file_list, convert_images, organize_files, extracted_files,
                   asset_index, manifest, pathVars, moveVars>>

\* lines 171-195
WriteManifest ==
    /\ pc = "process"
    /\ i > Len(extracted_files)
    /\ manifest' = << [assets |-> asset_index,
                       stats |-> [total_files |-> Len(extracted_files),
                                  images_converted |-> conversion_stats.converted,
                                  images_failed |-> conversion_stats.failed,
                                  images_skipped |-> conversion_stats.skipped]] >>
    /\ fs' = WriteNode(cleanup(fs), os_path_join(output_dir, Chars("manifest.json")),
                       FileNode(1, FALSE, 0, 0, Chars("manifest")))
    /\ pc' = "done"
    /\ UNCHANGED <<i, file_list, convert_images, organize_files, extracted_files,
                   asset_index, conversion_stats, pathVars, moveVars>>

Next ==
    \/ StartRaises
    \/ Start
    \/ BlockEntry
    \/ ExtractEntry
    \/ SkipNonFile
    \/ SkipLarge
    \/ ProcessFile
    \/ ProcessRaises
    \/ WriteManifest

Spec == InitRun /\ [][Next]_vars

-----------------------------------------------------------------------------
(* Properties of is_safe_path                                              *)

\* p is root or lies below it, component by component
Nested(root, p) ==
    LET r == Components(abspath(root))
        c == Components(abspath(p))
    IN  Len(r) <= Len(c) /\ SubSeq(c, 1, Len(r)) = r

\* C2: is_safe_path(rootDir, candidatePath) is true if and only if the
\* absolute, normalised candidate equals rootDir or is nested under it
\* component by component.
C2_SafeIffNested == pc = "return" => (safe <=> Nested(basedir, path))

-----------------------------------------------------------------------------
(* Properties of safe_move                                                 *)

\* the k-th renamed candidate for the targeted file name
Candidate(k) ==
    os_path_join(MoveDir, splitext(target)[1] \o <<"_">> \o str(k) \o splitext(target)[2])

\* the files that were in the destination directory before the first call
OldFiles == {q \in DOMAIN fs : fs[q] = Old}

\* C1: in a sequence of safe_move calls for one destination directory and
\* file name, no call changes or removes a file that is already in the
\* directory, and the returned paths are pairwise distinct.
C1_NoClobber ==
    [][/\ \A q \in DOMAIN fs :
              dirname(q) = MoveDir => q \in DOMAIN fs' /\ fs'[q] = fs[q]
       /\ \A a, b \in 1..Len(returned') : a # b => returned'[a] # returned'[b]]_vars

\* two calls have returned although the targeted name was taken from the start
C1_Witness ==
    /\ pc = "move"
    /\ Len(returned) >= 2
    /\ os_path_join(MoveDir, target) \in OldFiles

\* C10: safe_move moves the source to destDir/filename when that path is
\* free, and otherwise to destDir/<stem>_<k><ext> for the smallest k >= 1
\* that is free at call time, and returns that path; so into an empty
\* directory the first file keeps its name and the n-th gets <stem>_<n-1>.
C10_RelocationNaming ==
    [][Len(returned') > Len(returned) =>
        LET dst == os_path_join(MoveDir, target)
            src == os_path_join(Stage(i + 1), target)
            ret == Last(returned')
        IN  /\ src \notin DOMAIN fs'
            /\ fs'[ret] = fs[src]
            /\ IF dst \notin DOMAIN fs THEN ret = dst
               ELSE \E k \in 1..(Cardinality(DOMAIN fs) + 1) :
                        /\ ret = Candidate(k)
                        /\ ret \notin DOMAIN fs
                        /\ \A j \in 1..(k - 1) : Candidate(j) \in DOMAIN fs
            /\ OldFiles = {} =>
                   ret = IF returned = <<>> THEN dst ELSE Candidate(Len(returned))]_vars

\* the name and its _1 candidate were taken, so the first call returned _2
C10_Witness ==
    /\ pc = "move"
    /\ target = Chars("icon.png")
    /\ Len(returned) >= 2
    /\ returned[1] = Chars("/t/out/other/icon_2.png")
    /\ fs[returned[1]] = Staged(1)

-----------------------------------------------------------------------------
(* Properties of extract_assets                                            *)

\* the loop is at an entry that is a regular file
AtFile == pc = "process" /\ i <= Len(extracted_files) /\ isfile(fs, extracted_files[i])

\* the lower-cased extension of the entry the loop is at
ExtHere == lower(splitext(basename(extracted_files[i]))[2])

\* the member an element of extracted_files was extracted from
MemberAt(p) == CHOOSE m \in Pool : os_path_join(output_dir, m.name) = p

\* the element of extracted_files was a regular file when unpacking ended
ExtractedAsFile(p) ==
    /\ ~endswith(p, <<"/">>)
    /\ abspath(p) = targetpath(MemberAt(p).name, output_dir)

\* the element is an image over the size limit, in a run that converts
OversizedImage(p) ==
    /\ convert_images
    /\ lower(splitext(basename(p))[2]) \in SizeCheckedExts
    /\ MemberAt(p).size > MAX_IMAGE_SIZE

\* the records made for an element of extracted_files
RecordsOf(p) ==
    {r \in 1..Len(asset_index) : asset_index[r].original_path = relpath(p, output_dir)}

\* C3: no two records of a run have the same final path.
C3_DistinctFinalPaths ==
    \A a, b \in 1..Len(asset_index) :
        a # b => asset_index[a].path # asset_index[b].path

\* C4: in a finished run every element of extracted_files that was extracted
\* as a regular file has exactly one record, unless it was dropped as an
\* oversized image.
C4_EveryFileRecorded ==
    pc = "done" =>
        \A k \in 1..Len(extracted_files) :
            (ExtractedAsFile(extracted_files[k]) /\ ~OversizedImage(extracted_files[k]))
                => Cardinality(RecordsOf(extracted_files[k])) = 1

\* C5: stats.total_files of the manifest is the number of members that were
\* extracted as regular files; blocked members and directory members are
\* not counted.
C5_TotalFilesCountsRegularFiles ==
    pc = "done" =>
        manifest[1].stats.total_files =
            Cardinality({k \in 1..Len(file_list) :
                /\ is_safe_path(output_dir, os_path_join(output_dir, file_list[k]))
                /\ ~endswith(file_list[k], <<"/">>)})

\* C6 as stated: in a finished run that converts, an image over the size
\* limit is counted in images_skipped and still has its record.
C6_OversizedStillRecorded ==
    pc = "done" =>
        \A k \in 1..Len(extracted_files) :
            (ExtractedAsFile(extracted_files[k]) /\ OversizedImage(extracted_files[k]))
                => /\ manifest[1].stats.images_skipped >= 1
                   /\ RecordsOf(extracted_files[k]) # {}

\* C6 as amended: when conversion is enabled and the image the loop is at
\* exceeds the size limit, the step adds one to skipped and nothing else: the
\* file stays where it is, unconverted, and no record is appended.
C6_OversizedDropped ==
    [][(AtFile /\ convert_images /\ ExtHere \in SizeCheckedExts
            /\ getsize(fs, extracted_files[i]) > MAX_IMAGE_SIZE)
        => /\ conversion_stats' = [conversion_stats EXCEPT !.skipped = @ + 1]
           /\ asset_index' = asset_index
           /\ fs' = fs
           /\ i' = i + 1
           /\ pc' = pc]_vars

\* a finished run dropped big.gif: it is still where it was unpacked
C6_Witness ==
    /\ pc = "done"
    /\ convert_images
    /\ manifest[1].stats.images_skipped = 1
    /\ manifest[1].assets = <<>>
    /\ Chars("/t/out/big.gif") \in DOMAIN fs
    /\ fs[Chars("/t/out/big.gif")].size > MAX_IMAGE_SIZE

\* C7: a run is aborted only before any entry is processed (by a failure to
\* open the archive or to make the output directory); a failed relocation
\* does not abort it.
C7_AbortOnlyBeforeEntries ==
    pc = "aborted" => extracted_files = <<>> /\ asset_index = <<>> /\ i = 0

\* the bucket of the decision order: sound extensions, then raster
\* extensions by name and by dimensions, then other
Bucket(filename, ext, node) ==
    IF ext \in {Chars("voc"), Chars("wav"), Chars("aud"), Chars("mp3"), Chars("ogg")}
    THEN Chars("sound")
    ELSE IF ext \in {Chars("png"), Chars("jpg"), Chars("jpeg"), Chars("gif")} THEN
        IF contains(lower(filename), Chars("sprite")) THEN Chars("sprite")
        ELSE IF \/ contains(lower(filename), Chars("tile"))
                \/ contains(lower(filename), Chars("background")) THEN Chars("tile")
        ELSE IF ~node.img THEN Chars("other")
        ELSE IF node.w <= 64 /\ node.h <= 64 THEN Chars("sprite")
        ELSE IF node.w >= 128 \/ node.h >= 128 THEN Chars("tile")
        ELSE Chars("other")
    ELSE Chars("other")

\* C8: with organization enabled, the type of every record equals the bucket
\* of the decision order for the file's name, its extension after the
\* conversion step and the dimensions of the recorded file.
C8_TypeFollowsDecisionOrder ==
    [][(organize_files /\ Len(asset_index') > Len(asset_index)) =>
        LET r == Last(asset_index')
        IN  r.type = Bucket(r.filename, r.format,
                            fs'[abspath(os_path_join(output_dir, r.path))])]_vars

\* a small image named tile_bg.jpg, unpacked under sprites/, was moved to
\* tiles/ and recorded as a tile
C8_Witness ==
    /\ organize_files
    /\ \E r \in 1..Len(asset_index) :
           /\ asset_index[r].original_path = Chars("sprites/tile_bg.jpg")
           /\ asset_index[r].path = Chars("tiles/tile_bg.jpg")
           /\ asset_index[r].type = Chars("tile")

\* C9: when conversion is enabled and the file the loop is at is a .png
\* within the size limit, the step that records it adds exactly one to
\* skipped.
C9_PngCountedAsSkipped ==
    [][(AtFile /\ convert_images /\ ExtHere = Chars(".png")
            /\ getsize(fs, extracted_files[i]) <= MAX_IMAGE_SIZE
            /\ Len(asset_index') > Len(asset_index))
        => conversion_stats'.skipped = conversion_stats.skipped + 1]_vars

====
